---- MODULE Spec2Model ----
(***************************************************************************)
(* Model of treenq's domain handlers:                                      *)
(*   - GithubWebhook and GithubWebhookRequest.ReposToProcess (webhook.go)  *)
(*   - GithubCallbackHandler / GithubAuthHandler (auth.go)                 *)
(*   - HandleLoginSuccess (auth.go)                                        *)
(* The handlers are sequential Go functions; every call to a collaborator  *)
(* (db, github client, git, extractor, docker, kube) is one step of the    *)
(* model, and the collaborator's outcome (success or error) is chosen      *)
(* nondeterministically.  Go's defer is modelled by an explicit stack      *)
(* that is run, last in first out, when the function returns.              *)
(***************************************************************************)
EXTENDS Integers, Sequences, FiniteSets, TLC

VARIABLES
    \* ---- GithubWebhook: one delivery at a time
    req,          \* the GithubWebhookRequest being handled
    pc,           \* position of the handler in GithubWebhook
    idx,          \* index of the range loop over req.ReposToProcess()
    token,        \* local `token`
    repoDir,      \* local `repoDir`
    extractorID,  \* local `extractorID`
    appSpace,     \* local `appSpace`
    image,        \* local `image`
    appDef,       \* local `appDef`
    deferred,     \* the function's stack of deferred calls
    result,       \* the (GithubWebhookResponse, *vel.Error) returned
    dirs,         \* file system: the cloned working directories that exist
    sessions,     \* extractor: the sessions that are open
    deployments,  \* db: the saved AppDefinition records
    cluster,      \* kube: the application definitions applied to the cluster
    log,          \* history: the collaborator calls of the current delivery
    deliveries,   \* number of deliveries received so far
    outcomes,     \* history: for each finished delivery, whether it returned nil
    \* ---- OAuth: GithubAuthHandler and concurrent GithubCallbackHandler runs
    authStates,   \* db: the stored auth states, as (state, email) rows
    issued,       \* number of states generated by GithubAuthHandler so far
    redirects,    \* states sent out in a redirect by GithubAuthHandler
    authStatus,   \* HTTP status of each GithubAuthHandler run
    cb,           \* one record per GithubCallbackHandler request
    tokenPairs,   \* db: saved (email, access token) pairs
    \* ---- the request context of the webhook delivery
    cancelledAt,  \* length of the log when ctx was cancelled, -1 while it is not
    \* ---- ReposToProcess applied to an event
    event,        \* the GithubWebhookRequest given to the resolver
    resolved,     \* what ReposToProcess returned for it
    resolvedDone, \* whether ReposToProcess has been applied to the event
    \* ---- HandleLoginSuccess: one login callback at a time
    login,        \* the request being handled: its position, locals and calls
    users,        \* auth service: the local users
    loginSessions,\* auth service: the sessions established by Login
    logins        \* number of login callbacks received so far

webhookVars == <<req, pc, idx, token, repoDir, extractorID, appSpace, image,
                 appDef, deferred, result, dirs, sessions, deployments, cluster,
                 log, deliveries, outcomes>>
oauthVars == <<authStates, issued, redirects, authStatus, cb, tokenPairs>>
ctxVars == <<cancelledAt>>
resolverVars == <<event, resolved, resolvedDone>>
loginVars == <<login, users, loginSessions, logins>>
vars == <<webhookVars, oauthVars, ctxVars, resolverVars, loginVars>>
\* everything but the state of the webhook handler, and but that of OAuth
notWebhookVars == <<oauthVars, ctxVars, resolverVars, loginVars>>
notOAuthVars == <<webhookVars, ctxVars, resolverVars, loginVars>>

----------------------------------------------------------------------------
(* Bounds of the model *)

\* longest repository list carried by an event
MaxRepos == 2
\* number of webhook deliveries handled one after the other
MaxDeliveries == 2
\* number of OAuth initiations (states generated)
MaxStates == 2
\* number of OAuth callback requests, handled concurrently
MaxCallbacks == 3
\* number of login callbacks (HandleLoginSuccess requests), one after another
MaxLogins == 2

----------------------------------------------------------------------------
(* Event model *)

\* InstalledRepository values (ID, FullName, Private; Branch is never set here)
InstalledRepository(id, fullName, private) ==
    [ID |-> id, FullName |-> fullName, Private |-> private, Branch |-> ""]

\* Repository (the descriptor embedded in a push event)
Repository(id, fullName, private) ==
    [ID |-> id, CloneUrl |-> "", FullName |-> fullName, Private |-> private]

RepoIDs == {1, 2}
FullNameOf(id) == IF id = 1 THEN "o/r" ELSE "o/r2"
\* repository 1 is public, repository 2 is private
PrivateOf(id) == id = 2

InstalledRepos == {InstalledRepository(id, FullNameOf(id), PrivateOf(id)) : id \in RepoIDs}
EmbeddedRepos == {Repository(id, FullNameOf(id), PrivateOf(id)) : id \in RepoIDs}
NoRepository == Repository(0, "", FALSE)

RepoLists == UNION {[1..n -> InstalledRepos] : n \in 0..MaxRepos}

Refs == {"refs/heads/main", "refs/heads/master", "refs/heads/feature-x"}

GithubWebhookRequest(action, ref, repos, added, removed, repo, after) ==
    [After |-> after,
     Installation |-> [ID |-> 7, Account |-> [Login |-> "org"]],
     Sender |-> [Login |-> "alice"],
     Action |-> action,
     Repositories |-> repos,
     RepositoriesAdded |-> added,
     RepositoriesRemoved |-> removed,
     Ref |-> ref,
     Repository |-> repo]

\* The payloads GitHub delivers: an installation event carries its repository
\* list, a repositories event its added/removed lists, a push its ref, head
\* commit and repository.
Requests ==
    {GithubWebhookRequest("created", "", l, <<>>, <<>>, NoRepository, "") : l \in RepoLists}
    \cup {GithubWebhookRequest("added", "", <<>>, l, <<>>, NoRepository, "") : l \in RepoLists}
    \cup {GithubWebhookRequest("removed", "", <<>>, <<>>, l, NoRepository, "") : l \in RepoLists}
    \cup {GithubWebhookRequest("", r, <<>>, <<>>, <<>>, e, "abc123") : r \in Refs, e \in EmbeddedRepos}

NoRequest == GithubWebhookRequest("", "", <<>>, <<>>, <<>>, NoRepository, "")

\* Faulty variant of ReposToProcess: the ref of a push is not looked at.
ReposToProcessAnyRef(g) ==
    IF g.Action = "created" THEN g.Repositories
    ELSE IF g.Action = "added" THEN g.RepositoriesAdded
    ELSE IF g.Action = "" THEN
        <<InstalledRepository(g.Repository.ID, g.Repository.FullName, g.Repository.Private)>>
    ELSE <<>>

\* Faulty variant of ReposToProcess: "added" answers the installation list.
ReposToProcessAddedAsCreated(g) ==
    IF g.Action = "created" \/ g.Action = "added" THEN g.Repositories
    ELSE IF g.Action = "" THEN
        IF g.Ref # "refs/heads/master" /\ g.Ref # "refs/heads/main"
        THEN <<>>
        ELSE <<InstalledRepository(g.Repository.ID, g.Repository.FullName, g.Repository.Private)>>
    ELSE <<>>

\* Faulty variant of ReposToProcess: only main is a primary branch.
ReposToProcessMainOnly(g) ==
    IF g.Action = "created" THEN g.Repositories
    ELSE IF g.Action = "added" THEN g.RepositoriesAdded
    ELSE IF g.Action = "" THEN
        IF g.Ref # "refs/heads/main"
        THEN <<>>
        ELSE <<InstalledRepository(g.Repository.ID, g.Repository.FullName, g.Repository.Private)>>
    ELSE <<>>

\* Faulty variant of ReposToProcess: an unknown action is treated as a push.
ReposToProcessUnknownAsPush(g) ==
    IF g.Action = "created" THEN g.Repositories
    ELSE IF g.Action = "added" THEN g.RepositoriesAdded
    ELSE IF g.Ref # "refs/heads/master" /\ g.Ref # "refs/heads/main"
         THEN <<>>
         ELSE <<InstalledRepository(g.Repository.ID, g.Repository.FullName, g.Repository.Private)>>

\* func (g GithubWebhookRequest) ReposToProcess() []InstalledRepository
ReposToProcess(g) ==
    IF g.Action = "created" THEN g.Repositories
    ELSE IF g.Action = "added" THEN g.RepositoriesAdded
    ELSE IF g.Action = "" THEN
        IF g.Ref # "refs/heads/master" /\ g.Ref # "refs/heads/main"
        THEN <<>>
        ELSE <<InstalledRepository(g.Repository.ID, g.Repository.FullName, g.Repository.Private)>>
    ELSE <<>>

\* func (r InstalledRepository) CloneUrl() string
CloneUrl(r) == <<"https://github.com/", r.FullName, ".git">>

----------------------------------------------------------------------------
(* Values of the webhook handler *)

\* vel.Error: the nil error and the error built at every failing call
NoError == [Code |-> "", Message |-> ""]
UnknownError(msg) == [Code |-> "UNKNOWN", Message |-> msg]

\* err.Error() of a failing collaborator call
ErrMsg ==
    [LinkGithub |-> "link: db down",
     IssueAccessToken |-> "token: denied",
     Clone |-> "clone: failed",
     Open |-> "extractor: cannot open",
     ExtractConfig |-> "extract: bad config",
     Build |-> "build: failed",
     SaveDeployment |-> "save: db down",
     Apply |-> "apply: rejected"]
\* the outcomes of a collaborator call: "" is a nil error
Outcomes(op) == {"", ErrMsg[op]}

EmptyToken == <<>>
NoSpace == [Service |-> [Name |-> "", DockerfilePath |-> ""]]
NoImage == [Registry |-> "", Repository |-> "", Tag |-> ""]
NoAppDef == [ID |-> 0, AppID |-> "", App |-> NoSpace, Tag |-> "", Sha |-> "", User |-> ""]

\* one collaborator call: the loop index it was made in, its error ("" when
\* it succeeded), its arguments and the value it returned
Entry(op, i, err, arg, ret) == [op |-> op, i |-> i, err |-> err, arg |-> arg, ret |-> ret]
Succeeded(e) == e.err = ""

\* the calls of one pipeline run, in the order the code makes them
PipelineOps == <<"IssueAccessToken", "Clone", "Open", "ExtractConfig", "Build",
                 "SaveDeployment", "Apply">>
IsPipelineOp(op) == \E k \in 1..Len(PipelineOps) : PipelineOps[k] = op
CleanupOps == {"RemoveAll", "Close"}

\* if req.Action == "created"
LinkNeeded(r) == r.Action = "created"

\* Faulty variant of NeedsToken: a token is issued for public repositories too.
NeedsTokenAlways(repo) == TRUE

\* if repo.Private
NeedsToken(repo) == repo.Private

\* The statement that follows a collaborator call; every `if err != nil`
\* branch of GithubWebhook is a return.
Successor(step) ==
    CASE step = "LinkGithub" -> "range"
      [] step = "IssueAccessToken" -> "Clone"
      [] step = "Clone" -> "Open"
      [] step = "Open" -> "ExtractConfig"
      [] step = "ExtractConfig" -> "Build"
      [] step = "Build" -> "SaveDeployment"
      [] step = "SaveDeployment" -> "Apply"
      [] step = "Apply" -> "range"

\* Faulty variant of NextPc: a failing step moves on to the next repository.
NextPcContinue(step, err) == IF err # "" THEN "range" ELSE Successor(step)

\* Faulty variant of NextPc: the error of Build is not checked.
NextPcBuildUnchecked(step, err) ==
    IF err # "" /\ step # "Build" THEN "defers" ELSE Successor(step)

\* Faulty variant of NextPc: the error of LinkGithub is not checked.
NextPcLinkUnchecked(step, err) ==
    IF err # "" /\ step # "LinkGithub" THEN "defers" ELSE Successor(step)

\* Faulty variant of NextPc: a build whose commit and app space already have
\* a deployment record is not saved and applied again.
NextPcDedupSha(step, err) ==
    IF err # "" THEN "defers"
    ELSE IF step = "Build"
            /\ \E k \in 1..Len(deployments) :
                   deployments[k].Sha = req.After /\ deployments[k].App = appSpace
    THEN "range"
    ELSE Successor(step)

NextPc(step, err) == IF err # "" THEN "defers" ELSE Successor(step)

\* Faulty variant of NextResult: the failure's own message is not kept.
NextResultGeneric(step, err) == IF err # "" THEN UnknownError("internal error") ELSE result

\* the error result set by a failing call's return statement
NextResult(step, err) == IF err # "" THEN UnknownError(err) ELSE result

\* Faulty variant of DeferRemoveAll: the removal is not registered.
DeferRemoveAllForgotten(stack, dir) == stack

\* defer os.RemoveAll(repoDir)
DeferRemoveAll(stack, dir) == Append(stack, [fn |-> "RemoveAll", arg |-> dir])

\* defer h.extractor.Close(extractorID)
DeferClose(stack, id) == Append(stack, [fn |-> "Close", arg |-> id])

\* the repository of the current loop iteration
Repo == ReposToProcess(req)[idx]

\* a value no earlier call of this delivery returned
Fresh == Len(log) + 1

----------------------------------------------------------------------------
(* GithubWebhook, statement by statement *)

locals == <<token, repoDir, extractorID, appSpace, image, appDef>>

\* A delivery arrives: the handler is entered with fresh locals. The first
\* delivery carries any payload; the later ones are redeliveries of it (the
\* handler reads nothing an earlier delivery wrote, so deliveries of
\* different payloads do not influence each other).
Receive(r) ==
    /\ pc \in {"idle", "done"}
    /\ deliveries < MaxDeliveries
    /\ deliveries > 0 => r = req
    /\ req' = r
    /\ deliveries' = deliveries + 1
    /\ idx' = 0
    /\ token' = EmptyToken
    /\ repoDir' = 0
    /\ extractorID' = 0
    /\ appSpace' = NoSpace
    /\ image' = NoImage
    /\ appDef' = NoAppDef
    /\ deferred' = <<>>
    /\ result' = NoError
    /\ log' = <<>>
    /\ pc' = IF LinkNeeded(r) THEN "LinkGithub" ELSE "range"
    /\ UNCHANGED <<dirs, sessions, deployments, cluster, outcomes>>

\* err := h.db.LinkGithub(ctx, req.Installation.ID, req.Sender.Login, req.Repositories)
LinkGithub(err) ==
    /\ pc = "LinkGithub"
    /\ log' = Append(log, Entry("LinkGithub", 0, err,
                 [installationID |-> req.Installation.ID,
                  login |-> req.Sender.Login,
                  repos |-> req.Repositories], 0))
    /\ pc' = NextPc("LinkGithub", err)
    /\ result' = NextResult("LinkGithub", err)
    /\ UNCHANGED <<req, idx, locals, deferred, dirs, sessions, deployments, cluster, deliveries, outcomes>>

\* for _, repo := range req.ReposToProcess() { token := "" ; if repo.Private
RangeNext ==
    /\ pc = "range"
    /\ idx < Len(ReposToProcess(req))
    /\ idx' = idx + 1
    /\ token' = EmptyToken
    /\ repoDir' = 0
    /\ extractorID' = 0
    /\ appSpace' = NoSpace
    /\ image' = NoImage
    /\ appDef' = NoAppDef
    /\ pc' = IF NeedsToken(ReposToProcess(req)[idx + 1]) THEN "IssueAccessToken" ELSE "Clone"
    /\ UNCHANGED <<req, deferred, result, dirs, sessions, deployments, cluster, log,
                   deliveries, outcomes>>

\* the loop is over: return GithubWebhookResponse{}, nil
RangeEnd ==
    /\ pc = "range"
    /\ idx >= Len(ReposToProcess(req))
    /\ result' = NoError
    /\ pc' = "defers"
    /\ UNCHANGED <<req, idx, locals, deferred, dirs, sessions, deployments, cluster, log,
                   deliveries, outcomes>>

\* token, err = h.githubClient.IssueAccessToken(req.Installation.ID)
IssueAccessToken(err) ==
    /\ pc = "IssueAccessToken"
    /\ LET tok == IF err = "" THEN <<deliveries, Fresh>> ELSE EmptyToken IN
       /\ token' = tok
       /\ log' = Append(log, Entry("IssueAccessToken", idx, err, req.Installation.ID, tok))
    /\ pc' = NextPc("IssueAccessToken", err)
    /\ result' = NextResult("IssueAccessToken", err)
    /\ UNCHANGED <<req, idx, repoDir, extractorID, appSpace, image, appDef, deferred,
                   dirs, sessions, deployments, cluster, deliveries, outcomes>>

\* repoDir, err := h.git.Clone(repo.CloneUrl(), req.Installation.ID, repo.ID, token)
\* defer os.RemoveAll(repoDir)
Clone(err) ==
    /\ pc = "Clone"
    /\ LET dir == IF err = "" THEN Fresh ELSE 0 IN
       /\ repoDir' = dir
       /\ dirs' = IF err = "" THEN dirs \cup {[path |-> dir, url |-> CloneUrl(Repo)]} ELSE dirs
       /\ deferred' = IF err = "" THEN DeferRemoveAll(deferred, dir) ELSE deferred
       /\ log' = Append(log, Entry("Clone", idx, err,
                    [url |-> CloneUrl(Repo),
                     installationID |-> req.Installation.ID,
                     repoID |-> Repo.ID,
                     token |-> token], dir))
    /\ pc' = NextPc("Clone", err)
    /\ result' = NextResult("Clone", err)
    /\ UNCHANGED <<req, idx, token, extractorID, appSpace, image, appDef,
                   sessions, deployments, cluster, deliveries, outcomes>>

\* extractorID, err := h.extractor.Open()
\* defer h.extractor.Close(extractorID)
Open(err) ==
    /\ pc = "Open"
    /\ LET id == IF err = "" THEN Fresh ELSE 0 IN
       /\ extractorID' = id
       /\ sessions' = IF err = "" THEN sessions \cup {id} ELSE sessions
       /\ deferred' = IF err = "" THEN DeferClose(deferred, id) ELSE deferred
       /\ log' = Append(log, Entry("Open", idx, err, 0, id))
    /\ pc' = NextPc("Open", err)
    /\ result' = NextResult("Open", err)
    /\ UNCHANGED <<req, idx, token, repoDir, appSpace, image, appDef,
                   dirs, deployments, cluster, deliveries, outcomes>>

\* what the extractor reads in a cloned directory: the app space of the
\* repository that was cloned there
SpaceIn(dir) ==
    LET d == CHOOSE x \in dirs : x.path = dir IN
    [Service |-> [Name |-> d.url[2], DockerfilePath |-> "Dockerfile"]]

\* appSpace, err := h.extractor.ExtractConfig(extractorID, repoDir)
ExtractConfig(err) ==
    /\ pc = "ExtractConfig"
    \* the extractor cannot succeed without its session and the directory
    /\ err = "" => (extractorID \in sessions /\ \E x \in dirs : x.path = repoDir)
    /\ LET space == IF err = "" THEN SpaceIn(repoDir) ELSE NoSpace IN
       /\ appSpace' = space
       /\ log' = Append(log, Entry("ExtractConfig", idx, err,
                    [id |-> extractorID, dir |-> repoDir], space))
    /\ pc' = NextPc("ExtractConfig", err)
    /\ result' = NextResult("ExtractConfig", err)
    /\ UNCHANGED <<req, idx, token, repoDir, extractorID, image, appDef, deferred,
                   dirs, sessions, deployments, cluster, deliveries, outcomes>>

\* BuildArtifactRequest{Name, Path, Dockerfile: filepath.Join(repoDir, ...), Tag: "latest"}
BuildArtifactRequest ==
    [Name |-> appSpace.Service.Name,
     Path |-> repoDir,
     Dockerfile |-> <<repoDir, appSpace.Service.DockerfilePath>>,
     Tag |-> "latest"]

\* image, err := h.docker.Build(ctx, BuildArtifactRequest{...})
Build(err) ==
    /\ pc = "Build"
    /\ LET img == IF err = ""
                  THEN [Registry |-> "registry",
                        Repository |-> BuildArtifactRequest.Name,
                        Tag |-> BuildArtifactRequest.Tag]
                  ELSE NoImage IN
       /\ image' = img
       /\ log' = Append(log, Entry("Build", idx, err, BuildArtifactRequest, img))
    /\ pc' = NextPc("Build", err)
    /\ result' = NextResult("Build", err)
    /\ UNCHANGED <<req, idx, token, repoDir, extractorID, appSpace, appDef, deferred,
                   dirs, sessions, deployments, cluster, deliveries, outcomes>>

\* Faulty variant of NewAppDefinition: the user is the installation's account.
NewAppDefinitionAccountUser ==
    [ID |-> 0, AppID |-> "", App |-> appSpace, Tag |-> image.Tag,
     Sha |-> req.After, User |-> req.Installation.Account.Login]

\* AppDefinition{App: appSpace, Tag: image.Tag, User: req.Sender.Login, Sha: req.After}
NewAppDefinition ==
    [ID |-> 0, AppID |-> "", App |-> appSpace, Tag |-> image.Tag,
     Sha |-> req.After, User |-> req.Sender.Login]

\* db.SaveDeployment: the record is stored under an id the store assigns
StoreDeployment(store, def) == Append(store, [def EXCEPT !.ID = Len(store) + 1])

\* appDef, err := h.db.SaveDeployment(ctx, AppDefinition{...})
SaveDeployment(err) ==
    /\ pc = "SaveDeployment"
    /\ deployments' = IF err = "" THEN StoreDeployment(deployments, NewAppDefinition)
                      ELSE deployments
    /\ LET def == IF err = "" THEN deployments'[Len(deployments')] ELSE NoAppDef IN
       /\ appDef' = def
       /\ log' = Append(log, Entry("SaveDeployment", idx, err, NewAppDefinition, def))
    /\ pc' = NextPc("SaveDeployment", err)
    /\ result' = NextResult("SaveDeployment", err)
    /\ UNCHANGED <<req, idx, token, repoDir, extractorID, appSpace, image, deferred,
                   dirs, sessions, cluster, deliveries, outcomes>>

\* appKubeDef := h.kube.DefineApp(ctx, appDef.ID, appSpace, image)
DefineApp(id, space, img) == [id |-> id, app |-> space, image |-> img]

\* h.kube.Apply(ctx, h.kubeConfig, appKubeDef)
Apply(err) ==
    /\ pc = "Apply"
    /\ log' = Append(log, Entry("Apply", idx, err, DefineApp(appDef.ID, appSpace, image), 0))
    /\ cluster' = IF err = "" THEN Append(cluster, DefineApp(appDef.ID, appSpace, image))
                  ELSE cluster
    /\ pc' = NextPc("Apply", err)
    /\ result' = NextResult("Apply", err)
    /\ UNCHANGED <<req, idx, locals, deferred, dirs, sessions, deployments, deliveries, outcomes>>

\* The function returns: its deferred calls run, last registered first.
\* os.RemoveAll(dir) removes the directory, extractor.Close(id) the session.
RunDeferred ==
    /\ pc = "defers"
    /\ deferred # <<>>
    /\ LET call == deferred[Len(deferred)] IN
       /\ deferred' = SubSeq(deferred, 1, Len(deferred) - 1)
       /\ dirs' = IF call.fn = "RemoveAll" THEN {d \in dirs : d.path # call.arg} ELSE dirs
       /\ sessions' = IF call.fn = "Close" THEN sessions \ {call.arg} ELSE sessions
       /\ log' = Append(log, Entry(call.fn, 0, "", call.arg, 0))
    /\ UNCHANGED <<req, pc, idx, locals, result, deployments, cluster, deliveries, outcomes>>

\* every deferred call has run: the result reaches the caller
Return ==
    /\ pc = "defers"
    /\ deferred = <<>>
    /\ pc' = "done"
    /\ outcomes' = Append(outcomes, result = NoError)
    /\ UNCHANGED <<req, idx, locals, deferred, result, dirs, sessions, deployments,
                   cluster, log, deliveries>>

WebhookInit ==
    /\ req = NoRequest
    /\ pc = "idle"
    /\ idx = 0
    /\ token = EmptyToken
    /\ repoDir = 0
    /\ extractorID = 0
    /\ appSpace = NoSpace
    /\ image = NoImage
    /\ appDef = NoAppDef
    /\ deferred = <<>>
    /\ result = NoError
    /\ dirs = {}
    /\ sessions = {}
    /\ deployments = <<>>
    /\ cluster = <<>>
    /\ log = <<>>
    /\ deliveries = 0
    /\ outcomes = <<>>

OAuthInit ==
    /\ authStates = {}
    /\ issued = 0
    /\ redirects = {}
    /\ authStatus = <<>>
    /\ cb = <<>>
    /\ tokenPairs = {}

\* no event has been given to the resolver
ResolverIdle ==
    /\ event = NoRequest
    /\ resolved = <<>>
    /\ resolvedDone = FALSE

\* UserInfo: the zero value
NoUser == [ID |-> <<>>, Email |-> "", DisplayName |-> ""]
\* no login callback is being handled
NoLogin == [pc |-> "idle", intent |-> <<>>, token |-> "", idpUser |-> NoUser, user |-> NoUser,
            err |-> "", status |-> 0, calls |-> <<>>]

LoginInit ==
    /\ login = NoLogin
    /\ users = {}
    /\ loginSessions = {}
    /\ logins = 0

Init ==
    /\ WebhookInit
    /\ OAuthInit
    /\ cancelledAt = -1
    /\ ResolverIdle
    /\ LoginInit

Next ==
    \/ \E r \in Requests : Receive(r) /\ UNCHANGED notWebhookVars
    \/ \E err \in Outcomes("LinkGithub") : LinkGithub(err) /\ UNCHANGED notWebhookVars
    \/ RangeNext /\ UNCHANGED notWebhookVars
    \/ RangeEnd /\ UNCHANGED notWebhookVars
    \/ \E err \in Outcomes("IssueAccessToken") : IssueAccessToken(err) /\ UNCHANGED notWebhookVars
    \/ \E err \in Outcomes("Clone") : Clone(err) /\ UNCHANGED notWebhookVars
    \/ \E err \in Outcomes("Open") : Open(err) /\ UNCHANGED notWebhookVars
    \/ \E err \in Outcomes("ExtractConfig") : ExtractConfig(err) /\ UNCHANGED notWebhookVars
    \/ \E err \in Outcomes("Build") : Build(err) /\ UNCHANGED notWebhookVars
    \/ \E err \in Outcomes("SaveDeployment") : SaveDeployment(err) /\ UNCHANGED notWebhookVars
    \/ \E err \in Outcomes("Apply") : Apply(err) /\ UNCHANGED notWebhookVars
    \/ RunDeferred /\ UNCHANGED notWebhookVars
    \/ Return /\ UNCHANGED notWebhookVars

\* The webhook endpoint: a payload delivered, and redelivered, one delivery
\* after the other.
Spec == Init /\ [][Next]_vars

----------------------------------------------------------------------------
(* OAuth: GithubAuthHandler and GithubCallbackHandler *)

\* Strings of the OAuth requests: <<>> is the empty string (an absent query
\* parameter), <<n>> the n-th distinct non-empty value.
EmptyString == <<>>
\* uuid.New().String(): the n-th state generated differs from all before it
NewState == <<issued + 1>>
\* h.authProfiler.GetProfile(r.Context()).Email: the n-th initiation is made
\* by the n-th caller
CallerEmail == <<"user", issued + 1>>
\* the values of the callback's query parameters
QueryCodes == {EmptyString, <<1>>}
QueryStates == {EmptyString} \cup {<<n>> : n \in 1..MaxStates}

HttpOutcomes == {"", "error"}

\* func (h *Handler) GithubAuthHandler: the whole handler. The state is
\* saved for the caller's email; only when that succeeded is the caller
\* redirected (307) with the state in the URL, otherwise the answer is 500.
\* Faulty variant of AuthAnswer: the error of SaveAuthState is not checked.
AuthAnswerUnchecked(err) == 307

\* http.Error(w, ..., 500) when SaveAuthState failed, else http.Redirect(307)
AuthAnswer(err) == IF err # "" THEN 500 ELSE 307

GithubAuthHandler(err) ==
    /\ issued < MaxStates
    /\ issued' = issued + 1
    /\ authStates' = IF err = "" THEN authStates \cup {[state |-> NewState, email |-> CallerEmail]}
                     ELSE authStates
    /\ redirects' = IF AuthAnswer(err) = 307 THEN redirects \cup {NewState} ELSE redirects
    /\ authStatus' = Append(authStatus, AuthAnswer(err))
    /\ UNCHANGED <<cb, tokenPairs>>

\* Faulty variant of CodeMissing: the check of the code parameter is left out.
CodeMissingUnchecked(code) == FALSE

\* if code == ""
CodeMissing(code) == code = EmptyString

\* if state == ""
StateMissing(state) == state = EmptyString

\* GithubCallbackHandler up to its first collaborator call: the two query
\* parameters are read and checked.
CallbackReceive(code, state) ==
    /\ Len(cb) < MaxCallbacks
    /\ cb' = Append(cb,
                [code |-> code, state |-> state, email |-> EmptyString, accessToken |-> EmptyString,
                 calls |-> {}, validated |-> FALSE,
                 pc |-> IF CodeMissing(code) \/ StateMissing(state)
                        THEN "done" ELSE "AuthStateExists",
                 status |-> IF CodeMissing(code) \/ StateMissing(state) THEN 400 ELSE 0])
    /\ UNCHANGED <<authStates, issued, redirects, authStatus, tokenPairs>>

\* db.AuthStateExists(ctx, state): the stored state is read and invalidated
\* in one step (ConsumeAuthState); it answers the email, or an error when the
\* state is absent, already consumed, or the store fails.
StoredEmails(state) == {row.email : row \in {r \in authStates : r.state = state}}
ConsumeAuthState(rows, state) == {r \in rows : r.state # state}

\* Faulty variant of LookupRejected: the error of AuthStateExists is ignored.
LookupRejectedNever(err) == FALSE

\* if err != nil (after AuthStateExists)
LookupRejected(err) == err # ""

\* email, err := h.db.AuthStateExists(r.Context(), state)
CallbackAuthStateExists(p, err) ==
    /\ cb[p].pc = "AuthStateExists"
    \* the lookup cannot succeed for a state that is not stored
    /\ err = "" => StoredEmails(cb[p].state) # {}
    /\ authStates' = IF err = "" THEN ConsumeAuthState(authStates, cb[p].state) ELSE authStates
    /\ LET email == IF err = "" THEN CHOOSE e \in StoredEmails(cb[p].state) : TRUE
                    ELSE EmptyString IN
       cb' = [cb EXCEPT ![p] =
                [@ EXCEPT !.calls = @ \cup {"AuthStateExists"},
                          !.email = email,
                          !.validated = ~LookupRejected(err),
                          !.pc = IF LookupRejected(err) THEN "done" ELSE "exchangeCodeForToken",
                          !.status = IF LookupRejected(err) THEN 400 ELSE 0]]
    /\ UNCHANGED <<issued, redirects, authStatus, tokenPairs>>

\* tokenPair, err := h.exchangeCodeForToken(code)
CallbackExchange(p, err) ==
    /\ cb[p].pc = "exchangeCodeForToken"
    /\ cb' = [cb EXCEPT ![p] =
                [@ EXCEPT !.calls = @ \cup {"exchangeCodeForToken"},
                          !.accessToken = IF err = "" THEN <<"access_token", cb[p].code>>
                                          ELSE EmptyString,
                          !.pc = IF err # "" THEN "done" ELSE "SaveTokenPair",
                          !.status = IF err # "" THEN 500 ELSE 0]]
    /\ UNCHANGED <<authStates, issued, redirects, authStatus, tokenPairs>>

\* Faulty variant of TokenRow: the token is stored under the state value
\* instead of the email the state lookup returned.
TokenRowUnderState(p) == [email |-> cb[p].state, token |-> cb[p].accessToken]

\* the arguments of SaveTokenPair: email, tokenPair.AccessToken
TokenRow(p) == [email |-> cb[p].email, token |-> cb[p].accessToken]

\* h.db.SaveTokenPair(r.Context(), email, tokenPair.AccessToken); w.WriteHeader(200)
CallbackSaveTokenPair(p, err) ==
    /\ cb[p].pc = "SaveTokenPair"
    /\ tokenPairs' = IF err = "" THEN tokenPairs \cup {TokenRow(p)} ELSE tokenPairs
    /\ cb' = [cb EXCEPT ![p] =
                [@ EXCEPT !.calls = @ \cup {"SaveTokenPair"},
                          !.pc = "done",
                          !.status = IF err # "" THEN 500 ELSE 200]]
    /\ UNCHANGED <<authStates, issued, redirects, authStatus>>

OAuthNext ==
    \/ \E err \in HttpOutcomes :
           GithubAuthHandler(err) /\ UNCHANGED notOAuthVars
    \/ \E code \in QueryCodes, state \in QueryStates :
           CallbackReceive(code, state) /\ UNCHANGED notOAuthVars
    \/ \E p \in 1..Len(cb), err \in HttpOutcomes :
           CallbackAuthStateExists(p, err) /\ UNCHANGED notOAuthVars
    \/ \E p \in 1..Len(cb), err \in HttpOutcomes :
           CallbackExchange(p, err) /\ UNCHANGED notOAuthVars
    \/ \E p \in 1..Len(cb), err \in HttpOutcomes :
           CallbackSaveTokenPair(p, err) /\ UNCHANGED notOAuthVars

\* The OAuth endpoints: initiations and callbacks, the callbacks' steps
\* interleaved.
SpecOAuth == Init /\ [][OAuthNext]_vars

----------------------------------------------------------------------------
(* ReposToProcess on arbitrary field values *)

\* Values of every field ReposToProcess reads or could read, combined freely:
\* list elements with and without a branch, any action with any ref, lists
\* and embedded repository present whatever the action.
AnyActions == {"created", "added", "removed", "deleted", ""}
AnyRefs == Refs \cup {"", "refs/tags/main"}
AnyInstalledRepos ==
    {InstalledRepository(1, FullNameOf(1), PrivateOf(1)),
     [InstalledRepository(2, FullNameOf(2), PrivateOf(2)) EXCEPT !.Branch = "dev"]}
AnyRepoLists == UNION {[1..n -> AnyInstalledRepos] : n \in 0..MaxRepos}
AnyEmbeddedRepos ==
    {NoRepository,
     Repository(1, FullNameOf(1), PrivateOf(1)),
     [Repository(2, FullNameOf(2), PrivateOf(2)) EXCEPT !.CloneUrl = "https://github.com/o/r2.git"]}
AnyRequests ==
    {GithubWebhookRequest(a, r, l, m, <<>>, e, "abc123") :
        a \in AnyActions, r \in AnyRefs, l \in AnyRepoLists, m \in AnyRepoLists,
        e \in AnyEmbeddedRepos}

ResolverInit ==
    /\ WebhookInit
    /\ OAuthInit
    /\ cancelledAt = -1
    /\ LoginInit
    /\ event \in AnyRequests
    /\ resolved = <<>>
    /\ resolvedDone = FALSE

\* repos := event.ReposToProcess()
Resolve ==
    /\ ~resolvedDone
    /\ resolved' = ReposToProcess(event)
    /\ resolvedDone' = TRUE
    /\ UNCHANGED <<event, webhookVars, oauthVars, ctxVars, loginVars>>

ResolverNext == Resolve

SpecResolver == ResolverInit /\ [][ResolverNext]_vars

----------------------------------------------------------------------------
(* HandleLoginSuccess, statement by statement *)

\* var ErrUserNotFound = errors.New("user not found")
ErrUserNotFound == "user not found"

\* The identities the provider resolves a login to.
IdpIDs == {1, 2}
IdpUser(k) ==
    [ID |-> <<"idp", k>>,
     Email |-> IF k = 1 THEN "a@example.com" ELSE "b@example.com",
     DisplayName |-> IF k = 1 THEN "Ann" ELSE "Bob"]
LoginTokens == {"t1", "t2"}

\* What GetUserByEmail can hand back next to an error.  The lookup is given
\* the email only: it returns the zero UserInfo or one that echoes the email.
FailedLookupValues(email) == {NoUser, [NoUser EXCEPT !.Email = email]}

\* The outcomes of GetUserByEmail(email) on the current store.
LookupOutcomes(email) ==
    {[user |-> NoUser, err |-> "db down"]}
    \cup (IF \E u \in users : u.Email = email
          THEN {[user |-> u, err |-> ""] : u \in {v \in users : v.Email = email}}
          ELSE {[user |-> v, err |-> ErrUserNotFound] : v \in FailedLookupValues(email)})

\* The row CreateUser stores for the UserInfo it is given, under a new id.
CreatedUser(arg) ==
    [ID |-> <<"local", Cardinality(users) + 1>>, Email |-> arg.Email, DisplayName |-> arg.DisplayName]

LoginCall(op, arg, ret, err) == [op |-> op, arg |-> arg, ret |-> ret, err |-> err]

\* q := r.URL.Query(); intent := q.Get("id"); token := q.Get("token")
HandleLoginSuccess(tok) ==
    /\ login.pc \in {"idle", "done"}
    /\ logins < MaxLogins
    /\ logins' = logins + 1
    /\ login' = [NoLogin EXCEPT !.pc = "GetIdpUser", !.intent = <<"intent", logins + 1>>,
                                !.token = tok]
    /\ UNCHANGED <<users, loginSessions>>

\* user, err := h.authService.GetIdpUser(r.Context(), intent, token)
GetIdpUser(k, err) ==
    /\ login.pc = "GetIdpUser"
    /\ login' = [login EXCEPT
           !.calls = Append(@, LoginCall("GetIdpUser", <<login.intent, login.token>>,
                                         IF err = "" THEN IdpUser(k) ELSE NoUser, err)),
           !.user = IF err = "" THEN IdpUser(k) ELSE NoUser,
           !.idpUser = IF err = "" THEN IdpUser(k) ELSE NoUser,
           !.err = err,
           !.status = IF err # "" THEN 400 ELSE @,
           !.pc = IF err # "" THEN "done" ELSE "GetUserByEmail"]
    /\ UNCHANGED <<users, loginSessions, logins>>

\* Faulty variant of AfterLookup: every lookup error leads to creation.
AfterLookupAnyErrorCreates(err) ==
    IF err = "" THEN "Login" ELSE "CreateUser"

\* if err != nil { if !errors.Is(err, ErrUserNotFound) { 400; return } }
\* if errors.Is(err, ErrUserNotFound) { CreateUser ... }
AfterLookup(err) ==
    IF err # "" /\ err # ErrUserNotFound THEN "fail"
    ELSE IF err = ErrUserNotFound THEN "CreateUser"
    ELSE "Login"

\* user, err = h.authService.GetUserByEmail(r.Context(), user.Email)
GetUserByEmail(o) ==
    /\ login.pc = "GetUserByEmail"
    /\ o \in LookupOutcomes(login.user.Email)
    /\ login' = [login EXCEPT
           !.calls = Append(@, LoginCall("GetUserByEmail", login.user.Email, o.user, o.err)),
           !.user = o.user,
           !.err = o.err,
           !.status = IF AfterLookup(o.err) = "fail" THEN 400 ELSE @,
           !.pc = IF AfterLookup(o.err) = "fail" THEN "done" ELSE AfterLookup(o.err)]
    /\ UNCHANGED <<users, loginSessions, logins>>

\* user, err = h.authService.CreateUser(r.Context(), user)
CreateUser(err) ==
    /\ login.pc = "CreateUser"
    /\ users' = IF err = "" THEN users \cup {CreatedUser(login.user)} ELSE users
    /\ login' = [login EXCEPT
           !.calls = Append(@, LoginCall("CreateUser", login.user,
                                         IF err = "" THEN CreatedUser(login.user) ELSE NoUser, err)),
           !.user = IF err = "" THEN CreatedUser(login.user) ELSE NoUser,
           !.err = err,
           !.status = IF err # "" THEN 400 ELSE @,
           !.pc = IF err # "" THEN "done" ELSE "Login"]
    /\ UNCHANGED <<loginSessions, logins>>

\* h.authService.Login(user.ID, intent, token); nothing else is written, the
\* response goes out with the default status
AuthServiceLogin ==
    /\ login.pc = "Login"
    /\ loginSessions' = loginSessions \cup
           {[userID |-> login.user.ID, intent |-> login.intent, token |-> login.token]}
    /\ login' = [login EXCEPT
           !.calls = Append(@, LoginCall("Login", <<login.user.ID, login.intent, login.token>>,
                                         NoUser, "")),
           !.status = 200,
           !.pc = "done"]
    /\ UNCHANGED <<users, logins>>

notLoginVars == <<webhookVars, oauthVars, ctxVars, resolverVars>>

LoginNext ==
    \/ \E tok \in LoginTokens :
           HandleLoginSuccess(tok) /\ UNCHANGED notLoginVars
    \/ \E k \in IdpIDs, err \in {"", "idp down"} :
           GetIdpUser(k, err) /\ UNCHANGED notLoginVars
    \/ \E o \in LookupOutcomes(login.user.Email) :
           GetUserByEmail(o) /\ UNCHANGED notLoginVars
    \/ \E err \in {"", "create failed"} :
           CreateUser(err) /\ UNCHANGED notLoginVars
    \/ AuthServiceLogin /\ UNCHANGED notLoginVars

SpecLogin == Init /\ [][LoginNext]_vars

----------------------------------------------------------------------------
(* GithubWebhook under a request context that can be cancelled *)

\* The calls GithubWebhook hands its ctx to: LinkGithub, Build, SaveDeployment,
\* DefineApp and Apply.  IssueAccessToken, Clone, Open and ExtractConfig are
\* called without it.
TakesCtx(op) == op \in {"LinkGithub", "Build", "SaveDeployment", "Apply"}

\* A call that is given the ctx returns the context's error once the ctx is
\* cancelled; a call that is not given it cannot see the cancellation.
CtxOutcomes(op) ==
    IF TakesCtx(op) /\ cancelledAt >= 0 THEN {"context canceled"} ELSE Outcomes(op)

\* the request's ctx is cancelled while the delivery is being handled
Cancel ==
    /\ pc \notin {"idle", "done"}
    /\ cancelledAt = -1
    /\ cancelledAt' = Len(log)
    /\ UNCHANGED <<webhookVars, oauthVars, resolverVars, loginVars>>

\* One delivery and its ctx.
CancelNext ==
    \/ \E r \in Requests : deliveries = 0 /\ Receive(r) /\ UNCHANGED notWebhookVars
    \/ Cancel
    \/ \E err \in CtxOutcomes("LinkGithub") : LinkGithub(err) /\ UNCHANGED notWebhookVars
    \/ RangeNext /\ UNCHANGED notWebhookVars
    \/ RangeEnd /\ UNCHANGED notWebhookVars
    \/ \E err \in CtxOutcomes("IssueAccessToken") : IssueAccessToken(err) /\ UNCHANGED notWebhookVars
    \/ \E err \in CtxOutcomes("Clone") : Clone(err) /\ UNCHANGED notWebhookVars
    \/ \E err \in CtxOutcomes("Open") : Open(err) /\ UNCHANGED notWebhookVars
    \/ \E err \in CtxOutcomes("ExtractConfig") : ExtractConfig(err) /\ UNCHANGED notWebhookVars
    \/ \E err \in CtxOutcomes("Build") : Build(err) /\ UNCHANGED notWebhookVars
    \/ \E err \in CtxOutcomes("SaveDeployment") : SaveDeployment(err) /\ UNCHANGED notWebhookVars
    \/ \E err \in CtxOutcomes("Apply") : Apply(err) /\ UNCHANGED notWebhookVars
    \/ RunDeferred /\ UNCHANGED notWebhookVars
    \/ Return /\ UNCHANGED notWebhookVars

SpecCancel == Init /\ [][CancelNext]_vars

----------------------------------------------------------------------------
(* Properties of GithubWebhook *)

LogIdx == 1..Len(log)
\* the positions of the log holding a call of `op`
Calls(op) == {k \in LogIdx : log[k].op = op}
PipelineCalls == {k \in LogIdx : IsPipelineOp(log[k].op)}
FailedPipelineCalls == {k \in PipelineCalls : ~Succeeded(log[k])}
\* the resolved list, read from the event as the resolver's rules state it
Resolved ==
    IF req.Action = "created" THEN req.Repositories
    ELSE IF req.Action = "added" THEN req.RepositoriesAdded
    ELSE IF req.Action = "" /\ req.Ref \in {"refs/heads/master", "refs/heads/main"}
    THEN <<[ID |-> req.Repository.ID, FullName |-> req.Repository.FullName,
            Private |-> req.Repository.Private, Branch |-> ""]>>
    ELSE <<>>

C2_DirRemovedBeforeNextRepository ==
    \A k \in Calls("Clone") :
        (Succeeded(log[k]) /\ log[k].i < idx) =>
            ~ \E d \in dirs : d.path = log[k].ret

\* C3: when GithubWebhook has returned, every directory that was cloned has
\* been removed exactly once and every extractor session that was opened has
\* been closed exactly once, whichever step failed; nothing that was not
\* acquired is ever released, and nothing is released twice.
C3_ReleasedExactlyOnce ==
    /\ \A m \in Calls("RemoveAll") :
           /\ \E k \in Calls("Clone") : k < m /\ Succeeded(log[k]) /\ log[k].ret = log[m].arg
           /\ \A n \in Calls("RemoveAll") : log[n].arg = log[m].arg => n = m
    /\ \A m \in Calls("Close") :
           /\ \E k \in Calls("Open") : k < m /\ Succeeded(log[k]) /\ log[k].ret = log[m].arg
           /\ \A n \in Calls("Close") : log[n].arg = log[m].arg => n = m
    /\ pc = "done" =>
           /\ \A k \in Calls("Clone") :
                  Succeeded(log[k]) => \E m \in Calls("RemoveAll") : log[m].arg = log[k].ret
           /\ \A k \in Calls("Open") :
                  Succeeded(log[k]) => \E m \in Calls("Close") : log[m].arg = log[k].ret
           /\ dirs = {}
           /\ sessions = {}

C3_Witness ==
    /\ pc = "done"
    /\ \E k \in FailedPipelineCalls : log[k].i = 2 /\ log[k].op = "SaveDeployment"
    /\ Cardinality(Calls("RemoveAll")) = 2
    /\ Cardinality(Calls("Close")) = 2

\* C5: on action "created" the link (installation id, sender login, the
\* event's repository list) is persisted before any pipeline step; when
\* persisting it fails the handler returns that error and no pipeline step is
\* invoked; for any other action no link is persisted.
C5_LinkBeforePipeline ==
    /\ req.Action = "created" =>
           /\ pc \notin {"idle", "LinkGithub"} =>
                  /\ Calls("LinkGithub") = {1}
                  /\ log[1].arg = [installationID |-> req.Installation.ID,
                                   login |-> req.Sender.Login,
                                   repos |-> req.Repositories]
           /\ PipelineCalls # {} => (1 \in Calls("LinkGithub") /\ Succeeded(log[1]))
           /\ (1 \in Calls("LinkGithub") /\ ~Succeeded(log[1])) =>
                  /\ PipelineCalls = {}
                  /\ pc \in {"defers", "done"}
                  /\ result = UnknownError(log[1].err)
    /\ req.Action # "created" => Calls("LinkGithub") = {}

C5_Witness ==
    /\ pc = "done"
    /\ req.Action = "created"
    /\ Len(req.Repositories) = 2
    /\ 1 \in Calls("LinkGithub")
    /\ ~Succeeded(log[1])

\* the pipeline calls made for the i-th repository, in the order made
RunOf(i) == SelectSeq(log, LAMBDA e : e.i = i /\ IsPipelineOp(e.op))
\* the calls a complete run makes: token issuance only for a private one
FullRun(i) == IF Resolved[i].Private THEN PipelineOps ELSE Tail(PipelineOps)

\* C6: the calls of one repository's run are made in the order token issuance
\* (private only), clone, open, extract, build, save, apply, and a call is
\* made only if every earlier call of that run succeeded.
C6_OrderedFailFast ==
    \A i \in 1..idx :
        LET run == RunOf(i) IN
        /\ Len(run) <= Len(FullRun(i))
        /\ \A n \in 1..Len(run) : run[n].op = FullRun(i)[n]
        /\ \A n \in 1..(Len(run) - 1) : Succeeded(run[n])

C6_Witness ==
    /\ pc = "done"
    /\ \E k \in FailedPipelineCalls : log[k].op = "Build" /\ log[k].i = 2
    /\ Resolved[2].Private
    /\ Calls("SaveDeployment") = {k \in Calls("SaveDeployment") : log[k].i = 1}

\* the event resolves to no repository: a push to another branch, an action
\* that is not handled, or an empty repository list
EmptyResolved ==
    \/ req.Action = "" /\ req.Ref \notin {"refs/heads/master", "refs/heads/main"}
    \/ req.Action \notin {"created", "added", ""}
    \/ req.Action = "created" /\ req.Repositories = <<>>
    \/ req.Action = "added" /\ req.RepositoriesAdded = <<>>

\* C8 as stated: a webhook whose resolved repository set is empty performs no
\* pipeline work and returns success.
C8_EmptyReturnsSuccess ==
    (pc = "done" /\ EmptyResolved) => (PipelineCalls = {} /\ result = NoError)

\* C8 amended: a webhook whose resolved repository set is empty performs no
\* pipeline work and acquires nothing; it returns success, except that an
\* installation event (action "created") whose link cannot be persisted
\* returns that failure as the error UNKNOWN.
C8_EmptyDoesNoPipelineWork ==
    (pc # "idle" /\ EmptyResolved) =>
        /\ PipelineCalls = {}
        /\ Calls("RemoveAll") = {} /\ Calls("Close") = {}
        /\ dirs = {} /\ sessions = {}
        /\ pc = "done" =>
              IF req.Action = "created" /\ ~Succeeded(log[1])
              THEN result = UnknownError(log[1].err)
              ELSE result = NoError

C8_Witness ==
    /\ pc = "done"
    /\ req.Action = ""
    /\ req.Ref = "refs/heads/feature-x"
    /\ result = NoError
    /\ log = <<>>

\* C9: an installation access token is requested for a repository if and only
\* if it is private, once per private repository of a delivery and again in
\* every delivery; a public repository is cloned with the empty token and a
\* private one with the token issued just before, in the same iteration.
C9_TokenIffPrivate ==
    /\ \A k \in Calls("IssueAccessToken") :
           /\ Resolved[log[k].i].Private
           /\ log[k].arg = req.Installation.ID
           /\ \A m \in Calls("IssueAccessToken") : log[m].i = log[k].i => m = k
           /\ \A m \in Calls("IssueAccessToken") : log[m].ret = log[k].ret => m = k
    /\ \A i \in 1..idx :
           (Resolved[i].Private /\ ~(i = idx /\ pc = "IssueAccessToken")) =>
               \E k \in Calls("IssueAccessToken") : log[k].i = i
    /\ \A k \in Calls("Clone") :
           IF Resolved[log[k].i].Private
           THEN /\ k > 1
                /\ log[k - 1].op = "IssueAccessToken"
                /\ log[k - 1].i = log[k].i
                /\ Succeeded(log[k - 1])
                /\ log[k].arg.token = log[k - 1].ret
                /\ log[k].arg.token # EmptyToken
                /\ log[k].arg.token[1] = deliveries
           ELSE log[k].arg.token = EmptyToken

C9_Witness ==
    /\ pc = "done"
    /\ deliveries = 2
    /\ \E k \in Calls("Clone") : log[k].arg.token = EmptyToken
    /\ \E k \in Calls("Clone") : log[k].arg.token # EmptyToken
    /\ Cardinality(Calls("IssueAccessToken")) = 1

\* a push to the primary branch
QualifyingPush == req.Action = "" /\ req.Ref \in {"refs/heads/master", "refs/heads/main"}
\* the number of finished deliveries that returned nil
Successes == Cardinality({n \in 1..Len(outcomes) : outcomes[n]})

\* Between the deliveries of a qualifying push: one cluster application per
\* successful delivery, at least as many records, each with its own id.
C10_Inv ==
    (QualifyingPush /\ pc \in {"idle", "done"}) =>
        /\ Len(cluster) = Successes
        /\ Len(deployments) >= Successes
        /\ (Successes = deliveries) => Len(deployments) = deliveries
        /\ \A j \in 1..Len(deployments) :
               /\ deployments[j].ID = j
               /\ deployments[j].Sha = req.After
               /\ deployments[j].User = req.Sender.Login
               /\ deployments[j].Tag = "latest"
               /\ deployments[j].App.Service.Name = req.Repository.FullName
        /\ \A j, k \in 1..Len(cluster) : cluster[j].id = cluster[k].id => j = k
        /\ \A j \in 1..Len(cluster) : cluster[j].id \in 1..Len(deployments)

\* C10: deployment creation is not idempotent. Between the deliveries of a
\* qualifying push that is delivered repeatedly, every delivery that
\* succeeded has saved its own AppDefinition record and applied its own
\* cluster application: the records carry the same commit SHA, app space,
\* tag and user and differ in their id (no deduplication); and no step ever
\* changes or drops a record saved before.
C10_NotIdempotent ==
    /\ []C10_Inv
    /\ [][/\ Len(deployments') >= Len(deployments)
          /\ \A k \in 1..Len(deployments) : deployments'[k] = deployments[k]]_vars

C10_Witness ==
    /\ pc = "done"
    /\ QualifyingPush
    /\ deliveries = 2
    /\ Successes = 2
    /\ Len(deployments) = 2
    /\ deployments[1].Sha = deployments[2].Sha
    /\ deployments[1].ID # deployments[2].ID
    /\ Len(cluster) = 2

----------------------------------------------------------------------------
(* Properties of the OAuth callback *)

Callbacks == 1..Len(cb)

MissingParam(c) == c.code = EmptyString \/ c.state = EmptyString

\* A request that lacks a parameter has been answered 400 and called nothing.
C7_Inv ==
    \A p \in Callbacks :
        MissingParam(cb[p]) => (cb[p].status = 400 /\ cb[p].calls = {} /\ cb[p].pc = "done")

\* C7: a callback without its code or without its state parameter is answered
\* 400 (bad request) without any state lookup, code exchange or token save,
\* and the step that handles it leaves the stored auth states (and the saved
\* tokens) as they were.
C7_MissingParamsRejected ==
    /\ []C7_Inv
    /\ [][\A p \in 1..Len(cb') :
             (MissingParam(cb'[p]) /\ (p > Len(cb) \/ cb'[p] # cb[p])) =>
                 (authStates' = authStates /\ tokenPairs' = tokenPairs)]_vars

C7_Witness ==
    /\ authStates # {}
    /\ \E p, q \in Callbacks :
           /\ cb[p].code = EmptyString /\ cb[p].state \in {r.state : r \in authStates}
           /\ cb[p].status = 400
           /\ cb[q].code # EmptyString /\ cb[q].state = EmptyString
           /\ cb[q].status = 400

\* the email stored with a state by the initiation that generated it
InitiatorEmail(state) == <<"user", state[1]>>

\* C11: the access token is saved only after the state lookup and the code
\* exchange both succeeded, and against the email the lookup recovered for
\* that state; a failed lookup ends with 400 and neither exchange nor save,
\* a failed exchange or save ends with 500, and 200 is answered only when
\* lookup, exchange and save all succeeded.
C11_SaveAfterLookupAndExchange ==
    /\ \A p \in Callbacks :
           "SaveTokenPair" \in cb[p].calls =>
               /\ cb[p].validated
               /\ "exchangeCodeForToken" \in cb[p].calls
               /\ cb[p].accessToken = <<"access_token", cb[p].code>>
               /\ cb[p].status \in {200, 500}
    /\ \A p \in Callbacks :
           "exchangeCodeForToken" \in cb[p].calls =>
               /\ cb[p].validated
               /\ cb[p].email = InitiatorEmail(cb[p].state)
               /\ (cb[p].pc = "done" /\ "SaveTokenPair" \notin cb[p].calls) => cb[p].status = 500
    /\ \A p \in Callbacks :
           ("AuthStateExists" \in cb[p].calls /\ ~cb[p].validated) =>
               (cb[p].status = 400 /\ cb[p].calls = {"AuthStateExists"})
    /\ \A p \in Callbacks :
           cb[p].status = 200 =>
               /\ cb[p].calls = {"AuthStateExists", "exchangeCodeForToken", "SaveTokenPair"}
               /\ [email |-> InitiatorEmail(cb[p].state),
                   token |-> <<"access_token", cb[p].code>>] \in tokenPairs
    /\ \A row \in tokenPairs :
           \E p \in Callbacks :
               /\ cb[p].status = 200
               /\ row.email = InitiatorEmail(cb[p].state)
               /\ row.token = cb[p].accessToken

C11_Witness ==
    \E p, q, r \in Callbacks :
        /\ cb[p].status = 200
        /\ cb[q].status = 500 /\ "SaveTokenPair" \in cb[q].calls
        /\ cb[r].status = 400 /\ "AuthStateExists" \in cb[r].calls
        /\ Cardinality(tokenPairs) = 1

\* the states that were persisted: still stored, or consumed by a callback
Persisted(s) ==
    \/ \E r \in authStates : r.state = s /\ r.email = InitiatorEmail(s)
    \/ \E p \in Callbacks : cb[p].validated /\ cb[p].state = s

\* C14: GithubAuthHandler redirects only with a state it has just generated
\* and persisted for the caller's email: the state of every redirect is a
\* fresh one, stored when the redirect is issued; a run whose save failed is
\* answered 500 and sends no redirect.
C14_RedirectOnlyPersisted ==
    /\ [](/\ \A s \in redirects : Persisted(s)
          /\ \A n \in 1..Len(authStatus) :
                 /\ authStatus[n] \in {307, 500}
                 /\ authStatus[n] = 500 => <<n>> \notin redirects
                 /\ authStatus[n] = 307 => <<n>> \in redirects)
    /\ [][\A s \in redirects' \ redirects :
             /\ ~ \E r \in authStates : r.state = s
             /\ [state |-> s, email |-> InitiatorEmail(s)] \in authStates'
             /\ authStatus'[Len(authStatus')] = 307]_vars

C14_Witness ==
    /\ Len(authStatus) = 2
    /\ authStatus[1] = 500
    /\ authStatus[2] = 307
    /\ redirects = {<<2>>}
    /\ \E r \in authStates : r.state = <<2>>

----------------------------------------------------------------------------
(* Properties of ReposToProcess *)

\* C15: for action "created" the result is exactly the event's Repositories
\* list and for action "added" exactly its RepositoriesAdded list, element by
\* element unmodified, whatever the ref, the other lists and the embedded
\* repository are.
C15_ListsReturnedUnmodified ==
    resolvedDone =>
        /\ event.Action = "created" => resolved = event.Repositories
        /\ event.Action = "added" => resolved = event.RepositoriesAdded

C15_Witness ==
    /\ resolvedDone
    /\ event.Action = "added"
    /\ event.Ref = "refs/heads/main"
    /\ event.Repository # NoRepository
    /\ Len(event.RepositoriesAdded) = 2
    /\ event.RepositoriesAdded[2].Branch = "dev"
    /\ event.Repositories # event.RepositoriesAdded
    /\ resolved = event.RepositoriesAdded

\* C16: for the empty action and ref refs/heads/main or refs/heads/master the
\* result has exactly one element, built from the embedded repository: same
\* ID, FullName and Private, empty Branch, whatever the lists hold.
C16_PushToPrimaryBranch ==
    (resolvedDone /\ event.Action = "" /\ event.Ref \in {"refs/heads/main", "refs/heads/master"}) =>
        /\ Len(resolved) = 1
        /\ resolved[1].ID = event.Repository.ID
        /\ resolved[1].FullName = event.Repository.FullName
        /\ resolved[1].Private = event.Repository.Private
        /\ resolved[1].Branch = ""
        /\ DOMAIN resolved[1] = {"ID", "FullName", "Private", "Branch"}

C16_Witness ==
    /\ resolvedDone
    /\ event.Action = ""
    /\ event.Ref = "refs/heads/master"
    /\ event.Repository.ID = 2
    /\ Len(event.Repositories) = 2
    /\ Len(event.RepositoriesAdded) = 1
    /\ Len(resolved) = 1
    /\ resolved[1].Private

\* C17: the result is empty for the empty action with any ref other than
\* refs/heads/main and refs/heads/master, and for every action other than
\* "created", "added" and the empty one.
C17_OtherwiseEmpty ==
    (/\ resolvedDone
     /\ \/ event.Action = "" /\ event.Ref \notin {"refs/heads/main", "refs/heads/master"}
        \/ event.Action \notin {"created", "added", ""}) =>
        resolved = <<>>

C17_Witness ==
    /\ resolvedDone
    /\ event.Action = "deleted"
    /\ event.Ref = "refs/heads/main"
    /\ event.Repository.ID = 1
    /\ Len(event.Repositories) = 2
    /\ resolved = <<>>

----------------------------------------------------------------------------
(* Properties of HandleLoginSuccess *)

LoginOps == [n \in 1..Len(login.calls) |-> login.calls[n].op]
LoginErrs == [n \in 1..Len(login.calls) |-> login.calls[n].err]
SessionOf(intent) == {x \in loginSessions : x.intent = intent}

\* C12: in HandleLoginSuccess a lookup answering "user not found" is followed
\* by user creation and then the session; a lookup that finds the user is
\* followed by the session with no creation; a failed resolution of the
\* external user, any other lookup error and a failed creation each end the
\* request with 400, and no session is established for it.
C12_LoginBranches ==
    login.pc = "done" =>
        /\ LoginErrs[1] # "" =>
               /\ LoginOps = <<"GetIdpUser">>
               /\ login.status = 400
        /\ (Len(LoginErrs) >= 2 /\ LoginErrs[2] = ErrUserNotFound) =>
               /\ Len(LoginOps) >= 3 /\ LoginOps[3] = "CreateUser"
               /\ LoginErrs[3] = "" =>
                      /\ LoginOps = <<"GetIdpUser", "GetUserByEmail", "CreateUser", "Login">>
                      /\ login.status = 200
               /\ LoginErrs[3] # "" =>
                      /\ LoginOps = <<"GetIdpUser", "GetUserByEmail", "CreateUser">>
                      /\ login.status = 400
        /\ (Len(LoginErrs) >= 2 /\ LoginErrs[2] = "") =>
               /\ LoginOps = <<"GetIdpUser", "GetUserByEmail", "Login">>
               /\ login.status = 200
        /\ (Len(LoginErrs) >= 2 /\ LoginErrs[2] \notin {"", ErrUserNotFound}) =>
               /\ LoginOps = <<"GetIdpUser", "GetUserByEmail">>
               /\ login.status = 400
        /\ login.status = 400 <=> SessionOf(login.intent) = {}
        /\ login.status = 200 <=> Cardinality(SessionOf(login.intent)) = 1
        /\ login.status \in {200, 400}

C12_Witness ==
    /\ logins = 2
    /\ login.pc = "done"
    /\ LoginOps = <<"GetIdpUser", "GetUserByEmail", "Login">>
    /\ Cardinality(users) = 1
    /\ Cardinality(loginSessions) = 2

\* C19: when the lookup answers "user not found", the user given to
\* CreateUser is the identity GetIdpUser resolved for this login (it carries
\* the email that was looked up), and the session is bound to the id of the
\* user CreateUser returned.
C19_CreatesResolvedIdentity ==
    \A n \in 1..Len(login.calls) :
        login.calls[n].op = "CreateUser" =>
            /\ login.calls[n].arg = login.idpUser
            /\ login.calls[n].arg.Email = login.calls[n - 1].arg
            /\ (login.pc = "done" /\ login.status = 200) =>
                   \A x \in SessionOf(login.intent) : x.userID = login.calls[n].ret.ID

----------------------------------------------------------------------------
(* Properties of GithubWebhook: what is saved, applied and returned *)

\* the successful call of `op` made for the i-th repository of this delivery
CallOf(op, i) == CHOOSE k \in Calls(op) : log[k].i = i /\ Succeeded(log[k])

\* C18: every AppDefinition handed to SaveDeployment carries the event's
\* sender login as user, the event's after field as sha (empty unless the
\* event is a push), the tag of the image built in the same run and the spec
\* extracted in that run; the application applied to the cluster in a run is
\* defined from the id that run's save returned, the spec extracted and the
\* image built for the same repository.
C18_SavedAndAppliedFromSameRun ==
    /\ \A k \in Calls("SaveDeployment") :
           LET i == log[k].i IN
           /\ log[k].arg.User = req.Sender.Login
           /\ log[k].arg.Sha = req.After
           /\ req.Action # "" => log[k].arg.Sha = ""
           /\ log[k].arg.Tag = log[CallOf("Build", i)].ret.Tag
           /\ log[k].arg.App = log[CallOf("ExtractConfig", i)].ret
           /\ Succeeded(log[k]) =>
                  /\ log[k].ret.User = req.Sender.Login
                  /\ log[k].ret.Sha = req.After
                  /\ log[k].ret = deployments[log[k].ret.ID]
    /\ \A k \in Calls("Apply") :
           LET i == log[k].i IN
           /\ log[k].arg.id = log[CallOf("SaveDeployment", i)].ret.ID
           /\ log[k].arg.app = log[CallOf("ExtractConfig", i)].ret
           /\ log[k].arg.image = log[CallOf("Build", i)].ret
           /\ log[k].arg.app.Service.Name = Resolved[i].FullName
           /\ log[k].arg.image.Repository = Resolved[i].FullName
           /\ deployments[log[k].arg.id].App.Service.Name = Resolved[i].FullName

C18_Witness ==
    /\ pc = "done"
    /\ deliveries = 2
    /\ req.Action = ""
    /\ req.After = "abc123"
    /\ \E k \in Calls("Apply") : Succeeded(log[k]) /\ log[k].arg.id = 2
    /\ Len(deployments) = 2
    /\ deployments[2].Sha = "abc123"
    /\ deployments[2].User = "alice"

\* every call of the i-th repository's run was made and succeeded
RunSucceeded(i) ==
    /\ Len(RunOf(i)) = Len(FullRun(i))
    /\ \A n \in 1..Len(RunOf(i)) : RunOf(i)[n].op = FullRun(i)[n] /\ Succeeded(RunOf(i)[n])
    /\ \E k \in Calls("Apply") : log[k].i = i /\ Succeeded(log[k])
AllSucceeded ==
    /\ req.Action = "created" => \E k \in Calls("LinkGithub") : Succeeded(log[k])
    /\ \A i \in 1..Len(Resolved) : RunSucceeded(i)
FailedCalls == {k \in LogIdx : ~Succeeded(log[k])}

\* C20: GithubWebhook returns success exactly when the installation link (for
\* action "created") and every step of every resolved repository succeeded,
\* so that every resolved repository was applied; otherwise exactly one call
\* failed and the handler returns one error with code UNKNOWN and that call's
\* message.
C20_SuccessIffAllSucceeded ==
    pc = "done" =>
        /\ result = NoError <=> AllSucceeded
        /\ outcomes[Len(outcomes)] <=> AllSucceeded
        /\ ~AllSucceeded =>
               /\ Cardinality(FailedCalls) = 1
               /\ \A k \in FailedCalls :
                      /\ result = [Code |-> "UNKNOWN", Message |-> log[k].err]
                      /\ log[k].err = ErrMsg[log[k].op]

C20_Witness ==
    /\ pc = "done"
    /\ deliveries = 2
    /\ outcomes = <<TRUE, FALSE>>
    /\ Len(Resolved) = 2
    /\ result = [Code |-> "UNKNOWN", Message |-> "apply: rejected"]
    /\ \E k \in FailedCalls : log[k].op = "Apply" /\ log[k].i = 2

----------------------------------------------------------------------------
(* GithubWebhook and cancellation *)

\* C13: once the request's ctx is cancelled, every external call of the
\* pipeline honors it: the call in flight is aborted (it fails), no pipeline
\* call is started after it, and what the delivery acquired is released by
\* the time the handler has returned.
C13_CancellationHonored ==
    cancelledAt >= 0 =>
        /\ \A k \in PipelineCalls :
               k > cancelledAt => (k = cancelledAt + 1 /\ ~Succeeded(log[k]))
        /\ pc = "done" => (dirs = {} /\ sessions = {})

====
